---- MODULE Spec2Model ----
(***************************************************************************)
(* Model of the two reporting scripts of FeatureExtraction/analysis:       *)
(*   create_hyperparameter_table.py  (the table renderer)                  *)
(*   update_all_analyses.py          (batch runner, summary, main)         *)
(*                                                                         *)
(* Text is a sequence of tokens (strings); the structural characters       *)
(* ' { } , " | & are always tokens of their own.  Floats are integers in   *)
(* units of 1e-6.  Console output and files are sequences of lines.        *)
(***************************************************************************)
EXTENDS Integers, Sequences, FiniteSets, TLC

VARIABLES
    out,            \* stdout: the lines printed so far
    \* ---- create_hyperparameter_table.py
    t_pc,           \* position inside create_hyperparameter_table()
    df_cols,        \* columns of df (the loaded hyperparameter_summary.csv)
    df,             \* rows of df, in file order
    df_sorted,      \* rows of df_sorted
    table_data,     \* the list of dicts built by the loop
    csv_file,       \* ../results/hyperparameter_tuning_table.csv
    latex_file,     \* ../results/hyperparameter_tuning_table.tex
    markdown_file,  \* ../results/hyperparameter_tuning_table.md
    written,        \* which of the three output files have been written
    t_err,          \* the exception that ended create_hyperparameter_table()
    \* ---- update_all_analyses.py: run_analysis_scripts()
    scriptEnv,      \* what each external script does when it is run
    b_pc,           \* position inside run_analysis_scripts()
    b_i,            \* index of the current script of the for loop
    running,        \* child processes alive
    invoked,        \* scripts handed to subprocess.run so far, in order
    \* ---- update_all_analyses.py: create_isolation_forest_summary()
    s_pc,
    attack_results, \* rows of attack_specific_results.csv
    main_results,   \* rows of anomaly_detection_results.csv
    iso_results,    \* attack_results filtered to IsolationForest
    phantom_ranking,\* the sorted Realistic_Phantom_ECU rows
    s_err,          \* the exception that ended the summary
    \* ---- update_all_analyses.py: update_hyperparameter_analysis()
    h_pc,
    summary,        \* rows of hyperparameter_summary.csv
    h_err,
    \* ---- update_all_analyses.py: main()
    m_pc

tvars_files == <<csv_file, latex_file, markdown_file, written>>
tvars == <<t_pc, df_cols, df, df_sorted, table_data, csv_file, latex_file,
           markdown_file, written, t_err>>
bvars == <<scriptEnv, b_pc, b_i, running, invoked>>
svars == <<s_pc, attack_results, main_results, iso_results, phantom_ranking, s_err>>
hvars == <<h_pc, summary, h_err>>
vars  == <<out, tvars, bvars, svars, hvars, m_pc>>

----------------------------------------------------------------------------
(* Bounds of the model *)

MaxRows == 2        \* rows of a hyperparameter table read by the renderer
MaxF1 == 2          \* Best_F1 values are 0, 33e-6, ..., MaxF1 * 33e-6
MaxAttackRows == 2  \* rows of attack_specific_results.csv
MaxMainRows == 1    \* rows of anomaly_detection_results.csv
MaxScore == 1       \* F1_Score values are 0, 33e-6, ..., MaxScore * 33e-6
MaxHyperRows == 1   \* rows of the table read by update_hyperparameter_analysis

----------------------------------------------------------------------------
(* Generic helpers *)

SeqUpTo(S, n) == UNION {[1..k -> S] : k \in 0..n}

Range(s) == {s[k] : k \in 1..Len(s)}

RECURSIVE Flatten(_)
Flatten(ss) == IF ss = <<>> THEN <<>> ELSE Head(ss) \o Flatten(Tail(ss))

RECURSIVE Pow10(_)
Pow10(n) == IF n = 0 THEN 1 ELSE 10 * Pow10(n - 1)

DigitChars == <<"0", "1", "2", "3", "4", "5", "6", "7", "8", "9">>

DigitValue(c) == CHOOSE d \in 0..9 : DigitChars[d + 1] = c

\* str(n) of a non-negative integer
RECURSIVE IntStr(_)
IntStr(n) == IF n < 10 THEN <<DigitChars[n + 1]>>
             ELSE Append(IntStr(n \div 10), DigitChars[(n % 10) + 1])

\* n written with exactly w digits (zero padded)
RECURSIVE Digits(_, _)
Digits(n, w) == IF w = 0 THEN <<>>
                ELSE Append(Digits(n \div 10, w - 1), DigitChars[(n % 10) + 1])

\* int(s) of a digit sequence
RECURSIVE ParseInt(_)
ParseInt(s) == IF s = <<>> THEN 0
               ELSE 10 * ParseInt(SubSeq(s, 1, Len(s) - 1)) + DigitValue(s[Len(s)])

\* x / d correctly rounded to an integer, ties to even
RoundHalfEven(x, d) ==
    LET q == x \div d
        r == x % d
    IN  IF 2 * r < d THEN q
        ELSE IF 2 * r > d THEN q + 1
        ELSE IF q % 2 = 0 THEN q ELSE q + 1

\* f"{x:.{nd}f}" of a float x >= 0 held in units of 1e-6
Fmt(x, nd) ==
    LET q == RoundHalfEven(x, Pow10(6 - nd))
    IN  IntStr(q \div Pow10(nd)) \o <<".">> \o Digits(q % Pow10(nd), nd)

\* float(s) of "<digits>.<digits>", in units of 1e-6
ParseFloat(s) ==
    LET dot == CHOOSE k \in 1..Len(s) : s[k] = "."
        frac == SubSeq(s, dot + 1, Len(s))
    IN  ParseInt(SubSeq(s, 1, dot - 1)) * Pow10(6) + ParseInt(frac) * Pow10(6 - Len(frac))

\* s.split(sep) on a token
RECURSIVE Split(_, _)
Split(s, sep) ==
    IF \A k \in 1..Len(s) : s[k] # sep THEN <<s>>
    ELSE LET k == CHOOSE j \in 1..Len(s) : s[j] = sep /\ \A h \in 1..(j - 1) : s[h] # sep
         IN  <<SubSeq(s, 1, k - 1)>> \o Split(SubSeq(s, k + 1, Len(s)), sep)

\* ---- sort_values(key, ascending=False) with the default kind='quicksort',
\* which is not a stable sort: the result is ordered by key, descending,
\* and rows of equal key come in an order the numpy build decides.
MaxKey(rows, S, key) == CHOOSE m \in {rows[j][key] : j \in S} :
                            \A j \in S : rows[j][key] <= m

RECURSIVE DescendingOrders(_, _, _)
DescendingOrders(rows, S, key) ==
    IF S = {} THEN {<<>>}
    ELSE UNION {{<<i>> \o p : p \in DescendingOrders(rows, S \ {i}, key)} :
                  i \in {j \in S : rows[j][key] = MaxKey(rows, S, key)}}

MinKey(rows, S, key) == CHOOSE m \in {rows[j][key] : j \in S} :
                            \A j \in S : rows[j][key] >= m

RECURSIVE AscendingOrders(_, _, _)
AscendingOrders(rows, S, key) ==
    IF S = {} THEN {<<>>}
    ELSE UNION {{<<i>> \o p : p \in AscendingOrders(rows, S \ {i}, key)} :
                  i \in {j \in S : rows[j][key] = MinKey(rows, S, key)}}

\* sort_values without ascending=False
SortValuesAscending(rows, key) == AscendingOrders(rows, 1..Len(rows), key)

\* the index orders sort_values may return
SortValuesDescending(rows, key) == DescendingOrders(rows, 1..Len(rows), key)

Reorder(rows, p) == [k \in 1..Len(p) |-> rows[p[k]]]

----------------------------------------------------------------------------
(* create_hyperparameter_table.py *)

ScoreDecimals == 4       \* :.4f of the scores and of Inference_Time
TimeDecimals == 3        \* :.3f of Training_Time

RequiredColumns == {"Model", "Best_F1", "Best_AUC", "Best_Precision", "Best_Recall",
                    "Best_Parameters", "Training_Time", "Inference_Time"}

ResultColumns == <<"Rank", "Model", "Best_F1", "Best_AUC", "Best_Precision",
                   "Best_Recall", "Optimal_Parameters", "Training_Time",
                   "Inference_Time">>

\* an empty Best_Parameters cell is read by pandas as the float nan
NaN == <<"nan">>

StructuralChars == {"'", "{", "}"}

\* only the first .replace of the chain
StripQuotesOnly(raw) == SelectSeq(raw, LAMBDA c : c # "'")

\* .replace("'", "").replace("{", "").replace("}", "")
StripParams(raw) == SelectSeq(raw, LAMBDA c : c \notin StructuralChars)

KnownParams ==
    [LOF |-> <<"n_neighbors=20", ",", " contamination=0.1">>,
     OneClassSVM |-> <<"nu=0.05", ",", " kernel=rbf", ",", " gamma=scale">>,
     EllipticEnvelope |-> <<"support_fraction=0.8", ",", " contamination=0.1">>,
     IsolationForest |-> <<"n_estimators=100", ",", " max_samples=0.8", ",",
                           " contamination=0.1">>,
     Autoencoder |-> <<"epochs=50", ",", " latent_dim=8", ",", " dropout_rate=0.0">>]

\* the if/elif chain over row['Model']
ParamsClean(model, raw) ==
    IF model = "LOF" THEN KnownParams.LOF
    ELSE IF model = "OneClassSVM" THEN KnownParams.OneClassSVM
    ELSE IF model = "EllipticEnvelope" THEN KnownParams.EllipticEnvelope
    ELSE IF model = "IsolationForest" THEN KnownParams.IsolationForest
    ELSE IF model = "Autoencoder" THEN KnownParams.Autoencoder
    ELSE StripParams(raw)

\* the exception one loop iteration raises, "" when it raises none
RowError(cols, row) ==
    IF "Best_Parameters" \notin cols THEN "KeyError"
    ELSE IF row.Best_Parameters = NaN THEN "AttributeError"
    ELSE IF RequiredColumns \ cols # {} THEN "KeyError"
    ELSE ""

\* the dict appended for the row at index label i (0-based)
TableRow(i, row) ==
    [Rank |-> i + 1,
     Model |-> row.Model,
     Best_F1 |-> Fmt(row.Best_F1, ScoreDecimals),
     Best_AUC |-> Fmt(row.Best_AUC, ScoreDecimals),
     Best_Precision |-> Fmt(row.Best_Precision, ScoreDecimals),
     Best_Recall |-> Fmt(row.Best_Recall, ScoreDecimals),
     Optimal_Parameters |-> ParamsClean(row.Model, row.Best_Parameters),
     Training_Time |-> Append(Fmt(row.Training_Time, TimeDecimals), "s"),
     Inference_Time |-> Append(Fmt(row.Inference_Time, ScoreDecimals), "s")]

\* DataFrame(table_data): a frame built from no dicts has no columns
ResultsDf(data) == [columns |-> IF data = <<>> THEN <<>> ELSE ResultColumns,
                    rows |-> data]

RECURSIVE Join(_, _)
Join(fields, sep) ==
    IF fields = <<>> THEN <<>>
    ELSE IF Len(fields) = 1 THEN fields[1]
    ELSE fields[1] \o <<sep>> \o Join(Tail(fields), sep)

\* csv.QUOTE_MINIMAL: a field holding the delimiter is wrapped in quotes
CsvField(f) == IF "," \in Range(f) THEN <<"\"">> \o f \o <<"\"">> ELSE f

CsvLine(fields) == Join([k \in 1..Len(fields) |-> CsvField(fields[k])], ",")

\* the text of one cell of a results_df row, as str() / an f-string gives it
Cell(r, col) ==
    IF col = "Rank" THEN IntStr(r.Rank)
    ELSE IF col = "Model" THEN <<r.Model>>
    ELSE r[col]

\* results_df.to_csv(output_file, index=False)
ToCsvText(rdf) ==
    <<CsvLine([k \in 1..Len(rdf.columns) |-> <<rdf.columns[k]>>])>>
    \o [n \in 1..Len(rdf.rows) |->
          CsvLine([k \in 1..Len(rdf.columns) |-> Cell(rdf.rows[n], rdf.columns[k])])]

PerfColumns == <<"Rank", "Model", "Best_F1", "Best_AUC", "Best_Precision",
                 "Best_Recall", "Training_Time">>

ParamColumns == <<"Model", "Optimal_Parameters">>

Cells(r, cols) == [k \in 1..Len(cols) |-> Cell(r, cols[k])]

LatexRowLines(r, cols) == <<Join(Cells(r, cols), " & ") \o <<" \\\\">>, <<"\\hline">>>>

\* the text create_latex_table builds from the rows it iterates
LatexTableOf(rows) ==
    << <<"\\begin{table}[htbp]">>, <<"\\centering">>,
       <<"\\caption{Hyperparameter Tuning Results for All Models}">>,
       <<"\\label{tab:hyperparameter-results}">>,
       <<"\\begin{tabular}{|l|l|c|c|c|c|c|}">>, <<"\\hline">>,
       <<"\\textbf{Rank} & \\textbf{Model} & \\textbf{F1-Score} & \\textbf{AUC} & \\textbf{Precision} & \\textbf{Recall} & \\textbf{Training Time} \\\\">>,
       <<"\\hline">> >>
    \o Flatten([n \in 1..Len(rows) |-> LatexRowLines(rows[n], PerfColumns)])
    \o << <<"\\end{tabular}">>, <<"\\end{table}">>, <<>>,
          <<"% Optimal Parameters Table">>,
          <<"\\begin{table}[htbp]">>, <<"\\centering">>,
          <<"\\caption{Optimal Hyperparameters for Each Model}">>,
          <<"\\label{tab:optimal-parameters}">>,
          <<"\\begin{tabular}{|l|p{8cm}|}">>, <<"\\hline">>,
          <<"\\textbf{Model} & \\textbf{Optimal Parameters} \\\\">>,
          <<"\\hline">> >>
    \o Flatten([n \in 1..Len(rows) |-> LatexRowLines(rows[n], ParamColumns)])
    \o << <<"\\end{tabular}">>, <<"\\end{table}">> >>

\* a loop that stops one row short
LatexTableOffByOne(rdf) == LatexTableOf(SubSeq(rdf.rows, 1, Len(rdf.rows) - 1))

\* create_latex_table(df)
LatexTable(rdf) == LatexTableOf(rdf.rows)

MarkdownRowLine(r, cols) == <<"| ">> \o Join(Cells(r, cols), " | ") \o <<" |">>

\* create_markdown_table(df)
MarkdownTable(rdf) ==
    << <<"# Hyperparameter Tuning Results">>, <<>>,
       <<"## Table 1: Model Performance Comparison">>, <<>>,
       <<"| Rank | Model | F1-Score | AUC | Precision | Recall | Training Time |">>,
       <<"|------|-------|----------|-----|-----------|---------|---------------|">> >>
    \o [n \in 1..Len(rdf.rows) |-> MarkdownRowLine(rdf.rows[n], PerfColumns)]
    \o << <<>>, <<"## Table 2: Optimal Hyperparameters">>, <<>>,
          <<"| Model | Optimal Parameters |">>,
          <<"|-------|--------------------|">> >>
    \o [n \in 1..Len(rdf.rows) |-> MarkdownRowLine(rdf.rows[n], ParamColumns)]

\* ---- the contents hyperparameter_summary.csv may have
HyperRow(m, f, p) ==
    [Model |-> m, Best_F1 |-> f, Best_AUC |-> 912345, Best_Precision |-> 500000,
     Best_Recall |-> 1000000, Best_Parameters |-> p, Training_Time |-> 1420000,
     Inference_Time |-> 12345]

ModelNames == {"LOF", "KNN"}

RawParams == {<<"{", "'", "k", "'", ":", " ", "1", "}">>, NaN}

InputRows == {HyperRow(m, 33 * k, p) : m \in ModelNames, k \in 0..MaxF1, p \in RawParams}

RawOf(name) == <<"{", "'", name, "'", ":", " ", "1", "}">>

\* the five rows X, Y, Z, W, V with Best_F1 0.80, 0.95, 0.62, 0.95, 0.40
ExampleTable ==
    <<HyperRow("X", 800000, RawOf("x")), HyperRow("Y", 950000, RawOf("y")),
      HyperRow("Z", 620000, RawOf("z")), HyperRow("W", 950000, RawOf("w")),
      HyperRow("V", 400000, RawOf("v"))>>

\* a table of the six models of the writeup
SixModelTable ==
    <<HyperRow("LOF", 910000, RawOf("n_neighbors")),
      HyperRow("OneClassSVM", 870000, RawOf("nu")),
      HyperRow("EllipticEnvelope", 870000, RawOf("support_fraction")),
      HyperRow("IsolationForest", 640000, RawOf("n_estimators")),
      HyperRow("Autoencoder", 930000, RawOf("epochs")),
      HyperRow("KNN", 640040, RawOf("n_neighbors"))>>

InputTables == SeqUpTo(InputRows, MaxRows) \cup {ExampleTable, SixModelTable}

\* the header of the file: complete, or with one required column absent
ColumnSets == {RequiredColumns} \cup {RequiredColumns \ {c} : c \in RequiredColumns}

\* sort_values(...) keeps each row's index label (0-based file position)
Labelled(rows, p) == [k \in 1..Len(p) |-> [index |-> p[k] - 1, row |-> rows[p[k]]]]

\* .reset_index(drop=True)
ResetIndex(frame) == [k \in 1..Len(frame) |-> [index |-> k - 1, row |-> frame[k].row]]

TRaise(e) ==
    /\ t_err' = e
    /\ t_pc' = "raised"

\* line 14: df = pd.read_csv('../hyperparameters/hyperparameter_summary.csv')
ReadCsv ==
    /\ t_pc = "read"
    /\ \E exists \in BOOLEAN :
         IF ~exists
         THEN /\ TRaise("FileNotFoundError")
              /\ UNCHANGED <<df_cols, df>>
         ELSE /\ \E cols \in ColumnSets, rows \in InputTables :
                    /\ df_cols' = cols
                    /\ df' = rows
              /\ t_pc' = "sort"
              /\ UNCHANGED t_err
    /\ UNCHANGED <<out, df_sorted, table_data, csv_file, latex_file, markdown_file,
                   written, bvars, svars, hvars, m_pc>>

\* line 17: df_sorted = df.sort_values('Best_F1', ascending=False).reset_index(drop=True)
SortValues ==
    /\ t_pc = "sort"
    /\ IF "Best_F1" \notin df_cols
       THEN /\ TRaise("KeyError")
            /\ UNCHANGED df_sorted
       ELSE /\ \E p \in SortValuesDescending(df, "Best_F1") :
                  df_sorted' = ResetIndex(Labelled(df, p))
            /\ t_pc' = "loop"
            /\ UNCHANGED t_err
    /\ UNCHANGED <<out, df_cols, df, table_data, csv_file, latex_file, markdown_file,
                   written, bvars, svars, hvars, m_pc>>

\* lines 21-49: one iteration of the loop over df_sorted.iterrows()
BuildRow ==
    /\ t_pc = "loop"
    /\ Len(table_data) < Len(df_sorted)
    /\ LET cur == df_sorted[Len(table_data) + 1]
           e == RowError(df_cols, cur.row)
       IN  IF e # ""
           THEN /\ TRaise(e)
                /\ UNCHANGED table_data
           ELSE /\ table_data' = Append(table_data, TableRow(cur.index, cur.row))
                /\ UNCHANGED <<t_pc, t_err>>
    /\ UNCHANGED <<out, df_cols, df, df_sorted, csv_file, latex_file, markdown_file,
                   written, bvars, svars, hvars, m_pc>>

\* lines 51-55: results_df = pd.DataFrame(table_data); results_df.to_csv(...)
SaveCsv ==
    /\ t_pc = "loop"
    /\ Len(table_data) = Len(df_sorted)
    /\ csv_file' = ToCsvText(ResultsDf(table_data))
    /\ written' = written \cup {"csv"}
    /\ t_pc' = "latex"
    /\ UNCHANGED <<out, df_cols, df, df_sorted, table_data, latex_file, markdown_file,
                   t_err, bvars, svars, hvars, m_pc>>

\* lines 58-61
SaveLatex ==
    /\ t_pc = "latex"
    /\ latex_file' = LatexTable(ResultsDf(table_data))
    /\ written' = written \cup {"tex"}
    /\ t_pc' = "markdown"
    /\ UNCHANGED <<out, df_cols, df, df_sorted, table_data, csv_file, markdown_file,
                   t_err, bvars, svars, hvars, m_pc>>

\* lines 64-67
SaveMarkdown ==
    /\ t_pc = "markdown"
    /\ markdown_file' = MarkdownTable(ResultsDf(table_data))
    /\ written' = written \cup {"md"}
    /\ t_pc' = "print"
    /\ UNCHANGED <<out, df_cols, df, df_sorted, table_data, csv_file, latex_file,
                   t_err, bvars, svars, hvars, m_pc>>

\* lines 69-78 and 147: echo the markdown table, list the files, return
\* results_df to main(), which prints its last line ("=" * 80 is "====")
PrintTable ==
    /\ t_pc = "print"
    /\ out' = out \o << <<"HYPERPARAMETER TUNING RESULTS TABLE">>, <<"====">> >>
                  \o MarkdownTable(ResultsDf(table_data))
                  \o << <<>>, <<"FILES CREATED:">>,
                        <<"   - ../results/hyperparameter_tuning_table.csv (CSV format)">>,
                        <<"   - ../results/hyperparameter_tuning_table.tex (LaTeX format)">>,
                        <<"   - ../results/hyperparameter_tuning_table.md (Markdown format)">>,
                        <<>>, <<"Hyperparameter table generation completed!">> >>
    /\ t_pc' = "done"
    /\ UNCHANGED <<tvars_files, df_cols, df, df_sorted, table_data, t_err,
                   bvars, svars, hvars, m_pc>>

----------------------------------------------------------------------------
(* update_all_analyses.py: run_analysis_scripts() *)

Scripts == <<"simple_analysis.py", "performance_tradeoff.py", "radar_chart.py",
             "phantom_ecu_writeup_analysis.py", "realistic_phantom_analysis.py">>

\* what running one script may do: subprocess.run raises (with message exc),
\* or the child exits with returncode and captured stderr
Outcomes ==
    {[raises |-> TRUE, returncode |-> 0, stderr |-> <<>>, exc |-> <<"[Errno 12] Cannot allocate memory">>]}
    \cup {[raises |-> FALSE, returncode |-> rc, stderr |-> e, exc |-> <<>>] :
            rc \in {0, 1}, e \in {<<>>, <<"Traceback">>}}

ScriptEnvs == [1..Len(Scripts) -> Outcomes]

\* a loop that gives up at the first failure
NextScriptFailFast(i, failed) == IF failed THEN Len(Scripts) + 1 ELSE i + 1

\* the for loop: the script taken after script i, whatever happened to it
NextScript(i, failed) == i + 1

RunningLine(script) == <<"Running ", script, "...">>

\* a FAIL line that drops the captured stderr
ExitLineNoDiagnostic(script, o) ==
    IF o.returncode = 0
    THEN <<"   [OK] ", script, " completed successfully">>
    ELSE <<"   [FAIL] ", script, " failed">>

\* lines 30-33: the line printed for an exited child
ExitLine(script, o) ==
    IF o.returncode = 0
    THEN <<"   [OK] ", script, " completed successfully">>
    ELSE <<"   [FAIL] ", script, " failed: ">> \o o.stderr

\* line 35
ErrorLine(script, o) == <<"   [ERROR] Error running ", script, ": ">> \o o.exc

\* lines 25-29: print, then subprocess.run starts the child (or raises)
BatchLaunch ==
    /\ b_pc = "loop"
    /\ b_i <= Len(Scripts)
    /\ out' = Append(out, RunningLine(Scripts[b_i]))
    /\ invoked' = Append(invoked, Scripts[b_i])
    /\ IF scriptEnv[b_i].raises
       THEN /\ b_pc' = "except"
            /\ UNCHANGED running
       ELSE /\ b_pc' = "wait"
            /\ running' = running \cup {Scripts[b_i]}
    /\ UNCHANGED <<scriptEnv, b_i, tvars, svars, hvars, m_pc>>

\* lines 28-33: subprocess.run returns once the child has exited
BatchChildExit ==
    /\ b_pc = "wait"
    /\ running' = running \ {Scripts[b_i]}
    /\ out' = Append(out, ExitLine(Scripts[b_i], scriptEnv[b_i]))
    /\ b_i' = NextScript(b_i, scriptEnv[b_i].returncode # 0)
    /\ b_pc' = "loop"
    /\ UNCHANGED <<scriptEnv, invoked, tvars, svars, hvars, m_pc>>

\* lines 34-35: except Exception as e
BatchExcept ==
    /\ b_pc = "except"
    /\ out' = Append(out, ErrorLine(Scripts[b_i], scriptEnv[b_i]))
    /\ b_i' = NextScript(b_i, TRUE)
    /\ b_pc' = "loop"
    /\ UNCHANGED <<scriptEnv, running, invoked, tvars, svars, hvars, m_pc>>

\* the loop is exhausted: run_analysis_scripts returns None
BatchReturn ==
    /\ b_pc = "loop"
    /\ b_i > Len(Scripts)
    /\ b_pc' = "returned"
    /\ UNCHANGED <<out, scriptEnv, b_i, running, invoked, tvars, svars, hvars, m_pc>>

----------------------------------------------------------------------------
(* update_all_analyses.py: create_isolation_forest_summary() *)

ModelFilter == "IsolationForest"

DesignatedAttack == "Realistic_Phantom_ECU"

AttackModels == {"IsolationForest", "LOF"}

AttackTypes == {"Realistic_Phantom_ECU", "DoS"}

\* rows of attack_specific_results.csv
AttackRows == {[Model |-> m, Attack_Type |-> a, F1_Score |-> 33 * k,
                AUC |-> 700000, Precision |-> 250000] :
                 m \in AttackModels, a \in AttackTypes, k \in 0..MaxScore}

AttackTables == SeqUpTo(AttackRows, MaxAttackRows)

\* rows of anomaly_detection_results.csv; the columns 'F1-Score',
\* 'Training Time (s)' and 'Inference Time (s)' are the fields F1_Score,
\* Training_Time_s and Inference_Time_s
MainRows == {[Model |-> m, F1_Score |-> 812340, Precision |-> 750000, Recall |-> 880000,
              AUC |-> 900000, Training_Time_s |-> 1420000, Inference_Time_s |-> 310000] :
               m \in AttackModels}

MainTables == SeqUpTo(MainRows, MaxMainRows)

\* frame[frame[col] == value]
Where(frame, col, value) == SelectSeq(frame, LAMBDA r : r[col] = value)

SRaise(e) ==
    /\ s_err' = e
    /\ s_pc' = "raised"

\* line 41
SummaryReadAttack ==
    /\ s_pc = "read_attack"
    /\ \E exists \in BOOLEAN :
         IF ~exists
         THEN /\ SRaise("FileNotFoundError")
              /\ UNCHANGED attack_results
         ELSE /\ \E rows \in AttackTables : attack_results' = rows
              /\ s_pc' = "read_main"
              /\ UNCHANGED s_err
    /\ UNCHANGED <<out, main_results, iso_results, phantom_ranking, tvars, bvars, hvars, m_pc>>

\* line 42
SummaryReadMain ==
    /\ s_pc = "read_main"
    /\ \E exists \in BOOLEAN :
         IF ~exists
         THEN /\ SRaise("FileNotFoundError")
              /\ UNCHANGED main_results
         ELSE /\ \E rows \in MainTables : main_results' = rows
              /\ s_pc' = "header"
              /\ UNCHANGED s_err
    /\ UNCHANGED <<out, attack_results, iso_results, phantom_ranking, tvars, bvars, hvars, m_pc>>

\* lines 45-51: filter the attack table, print the banner and the first heading
SummaryHeader ==
    /\ s_pc = "header"
    /\ iso_results' = Where(attack_results, "Model", ModelFilter)
    /\ out' = out \o << <<>>, <<"====">>, <<"ISOLATION FOREST INTEGRATION SUMMARY">>,
                        <<"====">>, <<>>, <<"MAIN EVALUATION PERFORMANCE:">> >>
    /\ s_pc' = "main_metrics"
    /\ UNCHANGED <<attack_results, main_results, phantom_ranking, s_err, tvars, bvars, hvars, m_pc>>

\* lines 53-58
MainMetricLines(r) ==
    << <<"   - F1-Score: ">> \o Fmt(r.F1_Score, 4) \o <<" (Rank: 5/6)">>,
       <<"   - Precision: ">> \o Fmt(r.Precision, 4),
       <<"   - Recall: ">> \o Fmt(r.Recall, 4),
       <<"   - AUC: ">> \o Fmt(r.AUC, 4),
       <<"   - Training Time: ">> \o Fmt(r.Training_Time_s, 2) \o <<"s">>,
       <<"   - Inference Time: ">> \o Fmt(r.Inference_Time_s, 2) \o <<"s">> >>

\* a summary that skips the metrics of a model it does not find
SummaryMainMetricsSilent ==
    /\ s_pc = "main_metrics"
    /\ LET sel == Where(main_results, "Model", ModelFilter)
       IN  out' = IF sel = <<>> THEN out ELSE out \o MainMetricLines(sel[1])
    /\ s_pc' = "attacks"
    /\ UNCHANGED <<attack_results, main_results, iso_results, phantom_ranking, s_err,
                   tvars, bvars, hvars, m_pc>>

\* lines 52-58: .iloc[0] of an empty selection raises IndexError
SummaryMainMetrics ==
    /\ s_pc = "main_metrics"
    /\ LET sel == Where(main_results, "Model", ModelFilter)
       IN  IF sel = <<>>
           THEN /\ SRaise("IndexError")
                /\ UNCHANGED out
           ELSE /\ out' = out \o MainMetricLines(sel[1])
                /\ s_pc' = "attacks"
                /\ UNCHANGED s_err
    /\ UNCHANGED <<attack_results, main_results, iso_results, phantom_ranking, tvars, bvars, hvars, m_pc>>

\* line 62
AttackLine(r) == <<"   - ", r.Attack_Type, ": F1=">> \o Fmt(r.F1_Score, 4)
                   \o <<", AUC=">> \o Fmt(r.AUC, 4)

\* lines 66-70; {x:.1%} is 100 x with one decimal and a percent sign
PhantomLines(sel) ==
    IF Len(sel) > 0
    THEN << <<"   - Detection Rate: ">> \o Fmt(100 * sel[1].F1_Score, 1) \o <<"%">>,
            <<"   - Precision: ">> \o Fmt(sel[1].Precision, 4),
            <<"   - AUC: ">> \o Fmt(sel[1].AUC, 4) >>
    ELSE <<>>

\* lines 60-70
SummaryAttacks ==
    /\ s_pc = "attacks"
    /\ out' = out \o << <<>>, <<"ATTACK-SPECIFIC PERFORMANCE:">> >>
                  \o [k \in 1..Len(iso_results) |-> AttackLine(iso_results[k])]
                  \o << <<>>, <<"PHANTOM ECU PERFORMANCE:">> >>
                  \o PhantomLines(Where(iso_results, "Attack_Type", DesignatedAttack))
    /\ s_pc' = "ranking"
    /\ UNCHANGED <<attack_results, main_results, iso_results, phantom_ranking, s_err,
                   tvars, bvars, hvars, m_pc>>

\* line 78
RankingLine(i, r) == <<"   ">> \o IntStr(i) \o <<". ", r.Model, ": F1=">> \o Fmt(r.F1_Score, 4)

\* line 73
PhantomAll(attacks) == Where(attacks, "Attack_Type", DesignatedAttack)

\* lines 73-78
SummaryRanking ==
    /\ s_pc = "ranking"
    /\ LET phantom_all == PhantomAll(attack_results)
       IN  \E p \in SortValuesDescending(phantom_all, "F1_Score") :
              phantom_ranking' = Reorder(phantom_all, p)
    /\ out' = out \o << <<>>, <<"PHANTOM ECU MODEL RANKING:">> >>
                  \o [k \in 1..Len(phantom_ranking') |-> RankingLine(k, phantom_ranking'[k])]
    /\ s_pc' = "characteristics"
    /\ UNCHANGED <<attack_results, main_results, iso_results, s_err, tvars, bvars, hvars, m_pc>>

\* lines 81-87
SummaryReturn ==
    /\ s_pc = "characteristics"
    /\ out' = out \o << <<>>, <<"ISOLATION FOREST CHARACTERISTICS:">>,
                        <<"   - Speed: Fast training (1.42s), moderate inference">>,
                        <<"   - Scalability: Good for large datasets">>,
                        <<"   - Consistency: Stable across different attack types">>,
                        <<"   - Robustness: Ranks 4th-5th across most attacks">> >>
    /\ s_pc' = "returned"
    /\ UNCHANGED <<attack_results, main_results, iso_results, phantom_ranking, s_err,
                   tvars, bvars, hvars, m_pc>>

----------------------------------------------------------------------------
(* update_all_analyses.py: update_hyperparameter_analysis() *)

SummaryTables ==
    SeqUpTo({HyperRow(m, 640000, RawOf("n_estimators")) : m \in AttackModels}, MaxHyperRows)

\* lines 93-96
HyperRead ==
    /\ h_pc = "read"
    /\ \E exists \in BOOLEAN :
         IF ~exists
         THEN /\ h_err' = "FileNotFoundError"
              /\ h_pc' = "raised"
              /\ UNCHANGED <<summary, out>>
         ELSE /\ \E rows \in SummaryTables : summary' = rows
              /\ out' = out \o << <<>>, <<"HYPERPARAMETER TUNING RESULTS:">>,
                   <<"   Updated hyperparameter_summary.csv includes IsolationForest">> >>
              /\ h_pc' = "report"
              /\ UNCHANGED h_err
    /\ UNCHANGED <<tvars, bvars, svars, m_pc>>

\* lines 98-102
HyperReport ==
    /\ h_pc = "report"
    /\ LET sel == Where(summary, "Model", ModelFilter)
       IN  IF sel = <<>>
           THEN /\ h_err' = "IndexError"
                /\ h_pc' = "raised"
                /\ UNCHANGED out
           ELSE /\ out' = out \o
                     << <<"   - Best F1: ">> \o Fmt(sel[1].Best_F1, 4),
                        <<"   - Best Parameters: ">> \o sel[1].Best_Parameters,
                        <<"   - Training Time: ">> \o Fmt(sel[1].Training_Time, 2) \o <<"s">>,
                        <<"   - Inference Time: ">> \o Fmt(sel[1].Inference_Time, 4) \o <<"s">> >>
                /\ h_pc' = "returned"
                /\ UNCHANGED h_err
    /\ UNCHANGED <<summary, tvars, bvars, svars, m_pc>>

----------------------------------------------------------------------------
(* update_all_analyses.py: main() *)

SuccessLine == <<"ALL ANALYSES UPDATED SUCCESSFULLY!">>

\* lines 106-111: banner, then the call of run_analysis_scripts()
MainStart ==
    /\ m_pc = "start"
    /\ out' = out \o << <<"UPDATING ALL ANALYSES TO INCLUDE ISOLATION FOREST">>, <<"====">>,
                        <<>>, <<"1. REGENERATING VISUALIZATIONS...">> >>
    /\ b_pc' = "loop"
    /\ b_i' = 1
    /\ m_pc' = "batch"
    /\ UNCHANGED <<scriptEnv, running, invoked, tvars, svars, hvars>>

\* a main() that goes on only after a batch without failures
MainCallSummaryIfBatchOk ==
    /\ m_pc = "batch"
    /\ b_pc = "returned"
    /\ \A i \in 1..Len(Scripts) : ~scriptEnv[i].raises /\ scriptEnv[i].returncode = 0
    /\ out' = out \o << <<>>, <<"2. CREATING ISOLATION FOREST SUMMARY...">> >>
    /\ s_pc' = "read_attack"
    /\ m_pc' = "summary"
    /\ UNCHANGED <<attack_results, main_results, iso_results, phantom_ranking, s_err,
                   tvars, bvars, hvars>>

\* lines 113-115: run_analysis_scripts() has returned; call the summary
MainCallSummary ==
    /\ m_pc = "batch"
    /\ b_pc = "returned"
    /\ out' = out \o << <<>>, <<"2. CREATING ISOLATION FOREST SUMMARY...">> >>
    /\ s_pc' = "read_attack"
    /\ m_pc' = "summary"
    /\ UNCHANGED <<attack_results, main_results, iso_results, phantom_ranking, s_err,
                   tvars, bvars, hvars>>

\* lines 117-119: the summary has returned iso_results (its other locals
\* are gone with its frame); call update_hyperparameter_analysis()
MainCallHyper ==
    /\ m_pc = "summary"
    /\ s_pc = "returned"
    /\ out' = out \o << <<>>, <<"3. UPDATING HYPERPARAMETER ANALYSIS...">> >>
    /\ attack_results' = <<>>
    /\ main_results' = <<>>
    /\ phantom_ranking' = <<>>
    /\ h_pc' = "read"
    /\ m_pc' = "hyper"
    /\ UNCHANGED <<s_pc, iso_results, s_err, summary, h_err, tvars, bvars>>

\* lines 121-130
MainFinish ==
    /\ m_pc = "hyper"
    /\ h_pc = "returned"
    /\ out' = out \o << <<>>, SuccessLine, <<>>, <<"FILES UPDATED:">>,
                        <<"   - visualizations/model_comparison_plots.png">>,
                        <<"   - visualizations/performance_tradeoff_analysis.png">>,
                        <<"   - visualizations/model_radar_comparison.png">>,
                        <<"   - results/phantom_ecu_dissertation_analysis.png">>,
                        <<"   - results/attack_specific_results.csv">>,
                        <<"   - results/model_comparison_summary.csv">>,
                        <<>>,
                        <<"INTEGRATION COMPLETE - All figures now include IsolationForest!">> >>
    /\ summary' = <<>>
    /\ m_pc' = "done"
    /\ UNCHANGED <<h_pc, h_err, tvars, bvars, svars>>

\* an exception of the summary or of the hyperparameter stage is caught
\* nowhere in main(): it ends main() with a traceback
MainPropagate ==
    /\ m_pc \in {"summary", "hyper"}
    /\ IF m_pc = "summary" THEN s_pc = "raised" ELSE h_pc = "raised"
    /\ m_pc' = "raised"
    /\ UNCHANGED <<out, tvars, bvars, svars, hvars>>

----------------------------------------------------------------------------
(* Specifications *)

TIdle == /\ t_pc = "idle" /\ df_cols = {} /\ df = <<>> /\ df_sorted = <<>>
         /\ table_data = <<>> /\ csv_file = <<>> /\ latex_file = <<>>
         /\ markdown_file = <<>> /\ written = {} /\ t_err = ""

BIdle == /\ b_pc = "idle" /\ b_i = 1 /\ running = {} /\ invoked = <<>>

SIdle == /\ s_pc = "idle" /\ attack_results = <<>> /\ main_results = <<>>
         /\ iso_results = <<>> /\ phantom_ranking = <<>> /\ s_err = ""

HIdle == /\ h_pc = "idle" /\ summary = <<>> /\ h_err = ""

AllOk == [i \in 1..Len(Scripts) |-> [raises |-> FALSE, returncode |-> 0, stderr |-> <<>>, exc |-> <<>>]]

\* python create_hyperparameter_table.py
TableInit ==
    /\ out = << <<"Creating hyperparameter tuning results table...">> >>
    /\ t_pc = "read" /\ df_cols = {} /\ df = <<>> /\ df_sorted = <<>>
    /\ table_data = <<>> /\ csv_file = <<>> /\ latex_file = <<>>
    /\ markdown_file = <<>> /\ written = {} /\ t_err = ""
    /\ scriptEnv = AllOk /\ BIdle /\ SIdle /\ HIdle /\ m_pc = "idle"

TableNext == ReadCsv \/ SortValues \/ BuildRow \/ SaveCsv \/ SaveLatex
             \/ SaveMarkdown \/ PrintTable

TableSpec == TableInit /\ [][TableNext]_vars

\* a call of run_analysis_scripts()
BatchInit ==
    /\ out = <<>>
    /\ scriptEnv \in ScriptEnvs
    /\ b_pc = "loop" /\ b_i = 1 /\ running = {} /\ invoked = <<>>
    /\ TIdle /\ SIdle /\ HIdle /\ m_pc = "idle"

BatchNext == BatchLaunch \/ BatchChildExit \/ BatchExcept \/ BatchReturn

BatchSpec == BatchInit /\ [][BatchNext]_vars

\* a call of create_isolation_forest_summary()
SummaryInit ==
    /\ out = <<>>
    /\ s_pc = "read_attack" /\ attack_results = <<>> /\ main_results = <<>>
    /\ iso_results = <<>> /\ phantom_ranking = <<>> /\ s_err = ""
    /\ scriptEnv = AllOk /\ TIdle /\ BIdle /\ HIdle /\ m_pc = "idle"

SummaryNext == SummaryReadAttack \/ SummaryReadMain \/ SummaryHeader
               \/ SummaryMainMetrics \/ SummaryAttacks \/ SummaryRanking
               \/ SummaryReturn

SummarySpec == SummaryInit /\ [][SummaryNext]_vars

\* the runs of main() explored: every script behaves alike, or only the
\* second one fails
BatchScenarios ==
    {[i \in 1..Len(Scripts) |-> o] : o \in Outcomes}
    \cup {[i \in 1..Len(Scripts) |->
             IF i = 2 THEN [raises |-> FALSE, returncode |-> 1, stderr |-> <<"Traceback">>, exc |-> <<>>]
             ELSE AllOk[i]]}

\* python update_all_analyses.py
MainInit ==
    /\ out = <<>>
    /\ scriptEnv \in BatchScenarios
    /\ m_pc = "start"
    /\ TIdle /\ BIdle /\ SIdle /\ HIdle

MainNext == MainStart \/ MainCallSummary \/ MainCallHyper \/ MainFinish \/ MainPropagate
            \/ BatchNext \/ SummaryNext \/ HyperRead \/ HyperReport

MainSpec == MainInit /\ [][MainNext]_vars

----------------------------------------------------------------------------
(* Reading the renderings back, and the orders the claims speak of *)

\* one line of a CSV file split into fields; quotes group, commas separate
RECURSIVE CsvFields(_, _, _)
CsvFields(s, cur, inq) ==
    IF s = <<>> THEN <<cur>>
    ELSE IF Head(s) = "\"" THEN CsvFields(Tail(s), cur, ~inq)
    ELSE IF Head(s) = "," /\ ~inq THEN <<cur>> \o CsvFields(Tail(s), <<>>, FALSE)
    ELSE CsvFields(Tail(s), Append(cur, Head(s)), inq)

\* the data rows of the CSV output, parsed: Rank an integer, Best_F1 a float
ParsedCsvRows(file) ==
    [n \in 1..(Len(file) - 1) |->
        LET f == CsvFields(file[n + 1], <<>>, FALSE)
        IN  [Rank |-> ParseInt(f[1]), Model |-> f[2], Best_F1 |-> ParseFloat(f[3]),
             Optimal_Parameters |-> f[7]]]

CellsOfLines(lines, sep, n) ==
    LET all == [k \in 1..Len(lines) |-> Split(lines[k], sep)]
    IN  SelectSeq(all, LAMBDA c : Len(c) = n)

\* the rows with n cells of the LaTeX output
LatexCells(file, n) ==
    LET rowlines == SelectSeq(file, LAMBDA l : Len(l) > 1 /\ l[Len(l)] = " \\\\")
    IN  CellsOfLines([k \in 1..Len(rowlines) |->
                         SubSeq(rowlines[k], 1, Len(rowlines[k]) - 1)], " & ", n)

\* the rows with n cells of the Markdown output
MarkdownCells(file, n) ==
    LET rowlines == SelectSeq(file, LAMBDA l : Len(l) > 1 /\ l[1] = "| " /\ l[Len(l)] = " |")
    IN  CellsOfLines([k \in 1..Len(rowlines) |->
                         SubSeq(rowlines[k], 2, Len(rowlines[k]) - 1)], " | ", n)

\* (Model, Rank) of performance rows given as cells
ModelRankPairs(cells) == [k \in 1..Len(cells) |-> <<cells[k][2], ParseInt(cells[k][1])>>]

FirstCells(cells) == [k \in 1..Len(cells) |-> cells[k][1]]

\* the one order by key, descending, in which rows of equal key keep
\* their original order
StableDescending(rows, key) ==
    [k \in 1..Len(rows) |->
        CHOOSE i \in 1..Len(rows) :
            Cardinality({j \in 1..Len(rows) :
                            \/ rows[j][key] > rows[i][key]
                            \/ (rows[j][key] = rows[i][key] /\ j < i)}) = k - 1]

Identity(n) == [k \in 1..n |-> k]

\* the specification's names for the exceptions the code raises
SpecError(e) ==
    CASE e = "FileNotFoundError" -> "MissingFileError"
      [] e = "KeyError" -> "MalformedDataError"
      [] e = "AttributeError" -> "MalformedDataError"
      [] e = "IndexError" -> "ModelNotFoundError"
      [] OTHER -> e

Rendered == t_pc \in {"print", "done"}

----------------------------------------------------------------------------
(* Claims about create_hyperparameter_table.py, checked under TableSpec *)

\* C1: when the table has been rendered, the ranks are exactly 1..N, Best_F1
\* never increases from one rank to the next, and rows of equal Best_F1 keep
\* their input order (the rendered rows are the stable descending order of
\* the input).  The code's sort is not stable, so this fails on ties.
C1_DenseDescendingStableRanks ==
    Rendered =>
        /\ Len(table_data) = Len(df)
        /\ \A k \in 1..Len(table_data) : table_data[k].Rank = k
        /\ \A k \in 1..(Len(df_sorted) - 1) :
               df_sorted[k].row.Best_F1 >= df_sorted[k + 1].row.Best_F1
        /\ [k \in 1..Len(df_sorted) |-> df_sorted[k].row]
               = Reorder(df, StableDescending(df, "Best_F1"))

\* C5: with the file loaded and a required column absent, the render has
\* raised MalformedDataError or is about to, and no output file is written;
\* with the file missing it has raised MissingFileError and written nothing.
\* The code checks no column: a table without rows is rendered whatever
\* columns it lacks (Best_F1 excepted).
C5_AbortsWithoutOutput ==
    /\ (t_pc = "raised" /\ t_err = "FileNotFoundError") =>
           (SpecError(t_err) = "MissingFileError" /\ written = {})
    /\ (t_pc \notin {"idle", "read"} /\ t_err # "FileNotFoundError"
          /\ RequiredColumns \ df_cols # {}) =>
           /\ written = {}
           /\ t_pc \in {"sort", "loop", "raised"}
           /\ (t_pc = "raised" => SpecError(t_err) = "MalformedDataError")

\* C6: once the three files are written, the (Model, Rank) sequences read
\* back from the CSV rows, the LaTeX performance rows and the Markdown
\* performance rows are the same sequence, one row per input row, and both
\* parameter tables list the models in that order.
C6_SameRowsInAllFormats ==
    Rendered =>
        LET csv == ParsedCsvRows(csv_file)
            pairs == [k \in 1..Len(csv) |-> <<csv[k].Model, csv[k].Rank>>]
        IN  /\ Len(pairs) = Len(df)
            /\ ModelRankPairs(LatexCells(latex_file, Len(PerfColumns))) = pairs
            /\ ModelRankPairs(MarkdownCells(markdown_file, Len(PerfColumns))) = pairs
            /\ FirstCells(LatexCells(latex_file, Len(ParamColumns)))
                   = [k \in 1..Len(pairs) |-> pairs[k][1]]
            /\ FirstCells(MarkdownCells(markdown_file, Len(ParamColumns)))
                   = [k \in 1..Len(pairs) |-> pairs[k][1]]
            /\ \A k \in 1..Len(pairs) :
                   pairs[k] = << <<table_data[k].Model>>, table_data[k].Rank >>

C6_Witness ==
    /\ t_pc = "done"
    /\ written = {"csv", "tex", "md"}
    /\ Len(df) >= 2
    /\ \E a, b \in 1..Len(table_data) : table_data[a].Model # table_data[b].Model

\* C7: the CSV rows parsed back and sorted again by the numeric Best_F1
\* field, descending and stable, come out in the order they are in: the
\* Rank column is still 1, 2, ..., N.
C7_RoundTripKeepsRankOrder ==
    ("csv" \in written) =>
        LET rows == ParsedCsvRows(csv_file)
            again == Reorder(rows, StableDescending(rows, "Best_F1"))
        IN  /\ again = rows
            /\ [k \in 1..Len(again) |-> again[k].Rank] = Identity(Len(df))

\* two different Best_F1 values of the input are equal once formatted, and
\* a third row has another formatted value
C7_Witness ==
    /\ t_pc = "done"
    /\ \E a, b \in 1..Len(df) :
          /\ df[a].Best_F1 # df[b].Best_F1
          /\ Fmt(df[a].Best_F1, ScoreDecimals) = Fmt(df[b].Best_F1, ScoreDecimals)
    /\ \E a, b \in 1..Len(table_data) : table_data[a].Best_F1 # table_data[b].Best_F1

RECURSIVE Without(_, _)
Without(s, chars) ==
    IF s = <<>> THEN <<>>
    ELSE IF Head(s) \in chars THEN Without(Tail(s), chars)
    ELSE <<Head(s)>> \o Without(Tail(s), chars)

\* C8: every rendered row of a model of the lookup table carries that
\* model's literal, whatever its raw Best_Parameters; every other row
\* carries its raw Best_Parameters without the characters ' { }.
C8_ParametersByModelName ==
    \A k \in 1..Len(table_data) :
        LET m == table_data[k].Model
            raw == df_sorted[k].row.Best_Parameters
        IN  IF m \in DOMAIN KnownParams
            THEN table_data[k].Optimal_Parameters = KnownParams[m]
            ELSE table_data[k].Optimal_Parameters = Without(raw, {"'", "{", "}"})

C8_Witness ==
    /\ t_pc = "done"
    /\ \E a, b \in 1..Len(table_data) :
          /\ table_data[a].Model \in DOMAIN KnownParams
          /\ df_sorted[a].row.Best_Parameters # table_data[a].Optimal_Parameters
          /\ table_data[b].Model \notin DOMAIN KnownParams
          /\ "{" \in Range(df_sorted[b].row.Best_Parameters)
          /\ table_data[b].Optimal_Parameters = <<"k", ":", " ", "1">>

----------------------------------------------------------------------------
(* Claims about run_analysis_scripts(), checked under BatchSpec *)

\* C2: the scripts handed to subprocess.run are always a prefix of the list
\* (each once, in list order); at most one child is alive, and none while
\* the loop picks the next script; when the function returns every script
\* has been invoked, whatever failed or raised before it.
C2_EveryScriptOnceInOrder ==
    /\ Len(invoked) <= Len(Scripts)
    /\ invoked = SubSeq(Scripts, 1, Len(invoked))
    /\ Cardinality(running) <= 1
    /\ \A c \in running : b_i <= Len(Scripts) /\ c = Scripts[b_i] /\ c = invoked[Len(invoked)]
    /\ (b_pc \in {"loop", "except", "returned"} => running = {})
    /\ (b_pc = "returned" => invoked = Scripts)

C2_Witness ==
    /\ b_pc = "returned"
    /\ invoked = Scripts
    /\ scriptEnv[1].returncode # 0
    /\ scriptEnv[2].raises
    /\ scriptEnv[3].returncode = 0 /\ ~scriptEnv[3].raises

Succeeded == Cardinality({i \in 1..Len(Scripts) :
                            ~scriptEnv[i].raises /\ scriptEnv[i].returncode = 0})

Failed == Len(Scripts) - Succeeded

StatusOf(i) ==
    IF scriptEnv[i].raises
    THEN <<"   [ERROR] Error running ", Scripts[i], ": ">> \o scriptEnv[i].exc
    ELSE IF scriptEnv[i].returncode = 0
    THEN <<"   [OK] ", Scripts[i], " completed successfully">>
    ELSE <<"   [FAIL] ", Scripts[i], " failed: ">> \o scriptEnv[i].stderr

----------------------------------------------------------------------------
(* Claims about create_isolation_forest_summary(), checked under SummarySpec *)

TablesLoaded == s_pc \notin {"idle", "read_attack", "read_main"}
                /\ s_err # "FileNotFoundError"

NoMainMatch == \A k \in 1..Len(main_results) : main_results[k].Model # ModelFilter

\* C4: with both tables loaded and no row of the main table matching the
\* filter, the summary never gets past the main-metrics step: it raises
\* there (IndexError, the specification's ModelNotFoundError), having
\* printed the banner and the first heading only, and never returns.
C4_NoMatchRaises ==
    (TablesLoaded /\ NoMainMatch) =>
        /\ s_pc \in {"header", "main_metrics", "raised"}
        /\ (s_pc = "raised" => SpecError(s_err) = "ModelNotFoundError")
        /\ (s_pc # "header" => out[Len(out)] = <<"MAIN EVALUATION PERFORMANCE:">>)

C4_Witness ==
    /\ s_pc = "raised"
    /\ s_err = "IndexError"
    /\ Len(main_results) > 0
    /\ NoMainMatch
    /\ \E k \in 1..Len(attack_results) : attack_results[k].Model = ModelFilter

\* the ranking lines of the output: those after the ranking heading
RankingLines ==
    LET h == CHOOSE k \in 1..Len(out) : out[k] = <<"PHANTOM ECU MODEL RANKING:">>
    IN  SubSeq(out, h + 1, Len(out))

\* C9: the printed ranking holds every row of the attack table with the
\* designated attack type, of all models, numbered 1..K, F1_Score
\* descending, rows of equal F1_Score in table order; also when the filtered
\* model has no such row.  The code's sort is not stable, so this fails on
\* ties.
C9_FullStableRanking ==
    (s_pc = "characteristics") =>
        LET all == SelectSeq(attack_results, LAMBDA r : r.Attack_Type = DesignatedAttack)
            want == Reorder(all, StableDescending(all, "F1_Score"))
        IN  /\ phantom_ranking = want
            /\ RankingLines = [k \in 1..Len(want) |->
                   <<"   ">> \o IntStr(k) \o <<". ", want[k].Model, ": F1=">>
                       \o Fmt(want[k].F1_Score, 4)]

----------------------------------------------------------------------------
(* Claims about main(), checked under MainSpec *)

\* C10: the summary starts only after the batch has returned and the
\* hyperparameter stage only after the summary has returned; main() is
\* never held up by the batch, whatever its scripts did; the success line
\* is printed exactly when main() reaches its end, and main() fails to
\* reach it exactly when the summary or the hyperparameter stage raised.
C10_StagesInOrder ==
    /\ (s_pc # "idle" => b_pc = "returned")
    /\ (h_pc # "idle" => s_pc = "returned")
    /\ (b_pc # "returned" => m_pc \in {"start", "batch"})
    /\ ((SuccessLine \in Range(out)) <=> (m_pc = "done"))
    /\ (m_pc = "done" => (b_pc = "returned" /\ s_pc = "returned" /\ h_pc = "returned"))
    /\ (m_pc = "raised" <=> ((s_pc = "raised" \/ h_pc = "raised")
                               /\ ~ENABLED MainPropagate))
    /\ (m_pc \notin {"done", "raised"} => ENABLED MainNext)

\* every script of the batch failed or could not be launched, and the
\* success line is printed
C10_Witness ==
    /\ m_pc = "done"
    /\ \A i \in 1..Len(Scripts) : scriptEnv[i].returncode # 0
    /\ SuccessLine \in Range(out)

====
